---- MODULE Spec2Model ----
(***************************************************************************)
(* Model of src/.opencode/plugin/dev-server-hmr.ts: the DevServerHMRPlugin *)
(* hooks "event" (session.idle -> build, retry feedback, release, status)  *)
(* and "chat.message" (status Pending).                                    *)
(*                                                                         *)
(* A handler of the async "event" hook is suspended at every await; each   *)
(* action below is the synchronous code that runs when one awaited         *)
(* operation completes, up to the call that starts the next awaited one.   *)
(* This holds for `await updateAppStatus(...)` too: the function has an     *)
(* empty body, but the await yields, and steps of other handlers may run   *)
(* before the code after it (console.log, return) does.  The chat.message  *)
(* hook is suspended at its await in the same way, and its console.log and *)
(* return are a step of their own.                                         *)
(*                                                                         *)
(* What an awaited operation does outside the handler happens while the    *)
(* handler is suspended, in steps of their own before the step that        *)
(* resumes it: fs.readFile reads package.json, git tag creates the tag,    *)
(* and fs.writeFile, which is not atomic, opens the file with truncation   *)
(* and then writes it, so steps of other handlers may run while            *)
(* package.json is empty.                                                  *)
(*                                                                         *)
(* JavaScript values: an optional value is a sequence of length 0          *)
(* (undefined) or 1.  Text is a sequence of segments whose concatenation   *)
(* is the string; a version string is a sequence of one-character strings. *)
(***************************************************************************)
EXTENDS Integers, Sequences, FiniteSets, Bags

\* ---------------------------------------------------------------- bounds
\* Events (of any kind) the host delivers in one run when it may deliver
\* an event while handlers of earlier events are suspended.
MaxEvents == 2
\* Idle events in a run of one session's idle events whose builds all fail.
MaxFailures == 5
\* Handlers of the "event" hook that may be suspended at the same time.
MaxInFlight == 2

\* ------------------------------------------------------------ JS values
Undefined == <<>>
Some(x) == <<x>>

Digits == <<"0", "1", "2", "3", "4", "5", "6", "7", "8", "9">>

IsDigit(c) == \E i \in 1..10 : Digits[i] = c

DigitValue(c) == (CHOOSE i \in 1..10 : Digits[i] = c) - 1

\* The value of a short string of decimal digits.
RECURSIVE DecimalValue(_)
DecimalValue(s) ==
  IF s = <<>> THEN 0
  ELSE 10 * DecimalValue(SubSeq(s, 1, Len(s) - 1)) + DigitValue(s[Len(s)])

\* The decimal digits of a small natural number.
RECURSIVE DecimalString(_)
DecimalString(n) ==
  IF n < 10 THEN <<Digits[n + 1]>>
  ELSE DecimalString(n \div 10) \o <<Digits[(n % 10) + 1]>>

\* ----------------------------------------------- JS numbers: naturals
\* The mathematical value of a numeric string has no bound, and a JS
\* number is an IEEE 754 double.  A natural number of any size is held as
\* the sequence of its decimal digits, most significant first and without
\* leading zeros; zero is the empty sequence.
StripZeros(a) ==
  IF \A i \in DOMAIN a : a[i] = 0 THEN <<>>
  ELSE LET k == CHOOSE i \in DOMAIN a :
                  a[i] # 0 /\ \A j \in 1..(i - 1) : a[j] = 0
       IN SubSeq(a, k, Len(a))

\* -1, 0 or 1 as a is below, equal to or above b.
Cmp(a, b) ==
  IF Len(a) # Len(b) THEN (IF Len(a) < Len(b) THEN -1 ELSE 1)
  ELSE IF a = b THEN 0
  ELSE LET k == CHOOSE i \in DOMAIN a :
                  a[i] # b[i] /\ \A j \in 1..(i - 1) : a[j] = b[j]
       IN IF a[k] < b[k] THEN -1 ELSE 1

\* The digit of a at the place p, counted from the right with 0 first.
Place(a, p) == IF p < Len(a) THEN a[Len(a) - p] ELSE 0

\* The digits of a + b + c at the places lo..hi, and the carry out of
\* them: the lower half of the places is added first.
RECURSIVE AddRange(_, _, _, _, _)
AddRange(a, b, lo, hi, c) ==
  IF lo = hi
  THEN LET x == Place(a, lo) + Place(b, lo) + c
       IN [d |-> <<x % 10>>, c |-> x \div 10]
  ELSE LET mid == (lo + hi) \div 2
           low == AddRange(a, b, lo, mid, c)
           high == IF low.c = 0 THEN AddRange(a, b, mid + 1, hi, 0)
                   ELSE AddRange(a, b, mid + 1, hi, 1)
       IN [d |-> high.d \o low.d, c |-> high.c]

\* The digits of a sum with the carry out of them put in front.
WithCarry(sum) == (IF sum.c = 0 THEN <<>> ELSE <<sum.c>>) \o sum.d

Add(a, b) ==
  IF a = <<>> /\ b = <<>> THEN <<>>
  ELSE WithCarry(AddRange(a, b, 0,
                          (IF Len(a) > Len(b) THEN Len(a) ELSE Len(b)) - 1, 0))

\* The digits of a - b - c at the places lo..hi, and the borrow out of
\* them.
RECURSIVE SubRange(_, _, _, _, _)
SubRange(a, b, lo, hi, c) ==
  IF lo = hi
  THEN LET x == Place(a, lo) - Place(b, lo) - c
       IN [d |-> <<(x + 10) % 10>>, c |-> IF x < 0 THEN 1 ELSE 0]
  ELSE LET mid == (lo + hi) \div 2
           low == SubRange(a, b, lo, mid, c)
           high == IF low.c = 0 THEN SubRange(a, b, mid + 1, hi, 0)
                   ELSE SubRange(a, b, mid + 1, hi, 1)
       IN [d |-> high.d \o low.d, c |-> high.c]

\* a - b for a >= b.
Sub(a, b) ==
  IF a = <<>> THEN <<>>
  ELSE StripZeros(SubRange(a, b, 0, Len(a) - 1, 0).d)

\* a * 2: a place takes a carry exactly when the place below holds 5 or
\* more.
Double(a) ==
  (IF a # <<>> /\ a[1] >= 5 THEN <<1>> ELSE <<>>)
    \o [i \in 1..Len(a) |->
         ((2 * a[i]) % 10) + (IF i < Len(a) /\ a[i + 1] >= 5 THEN 1 ELSE 0)]

\* a * 2^k.
RECURSIVE MulPow2(_, _)
MulPow2(a, k) ==
  IF k = 0 THEN a
  ELSE IF k = 1 THEN Double(a)
  ELSE LET half == MulPow2(a, k \div 2)
       IN IF half = <<>> THEN <<>> ELSE MulPow2(half, k - (k \div 2))

\* a * 10^k.
MulPow10(a, k) == IF a = <<>> THEN <<>> ELSE a \o [i \in 1..k |-> 0]

\* How often b fits into r, counted from n on, and what is left of r.
RECURSIVE Fit(_, _, _)
Fit(r, b, n) ==
  IF Cmp(r, b) < 0 THEN [q |-> n, r |-> r] ELSE Fit(Sub(r, b), b, n + 1)

\* Long division: the digits of a are brought down from the i-th on; f is
\* how often b fits into what is left with the i-th digit brought down.
RECURSIVE DivFrom(_, _, _, _, _)
DivNext(a, b, i, q, f) == DivFrom(a, b, i + 1, f.r, Append(q, f.q))

DivFrom(a, b, i, r, q) ==
  IF i > Len(a) THEN [q |-> StripZeros(q), r |-> r]
  ELSE DivNext(a, b, i, q, Fit(StripZeros(Append(r, a[i])), b, 0))

\* Quotient and remainder of a by b, for b > 0.
DivMod(a, b) ==
  IF Len(a) < Len(b) THEN [q |-> <<>>, r |-> a]
  ELSE DivFrom(a, b, Len(b), SubSeq(a, 1, Len(b) - 1), <<>>)

\* a \div 2: a place takes 10 from the place above when that one is odd.
Halve(a) ==
  StripZeros(<<>> \o [i \in 1..Len(a) |->
    (a[i] + (IF i > 1 /\ a[i - 1] % 2 = 1 THEN 10 ELSE 0)) \div 2])

\* 2^52, the least significand of 53 bits, and 2^53, above which not every
\* integer is a double.
TwoTo52 == <<4, 5, 0, 3, 5, 9, 9, 6, 2, 7, 3, 7, 0, 4, 9, 6>>
TwoTo53 == <<9, 0, 0, 7, 1, 9, 9, 2, 5, 4, 7, 4, 0, 9, 9, 2>>

\* ------------------------------------------------- JS numbers: doubles
\* A JS value that is a number or undefined.  A finite number is
\* (-1)^neg * m * 2^e with m zero (and e = 0) or an odd natural number of
\* at most 53 bits, so that a double has one representation.
JSUndefined == [t |-> "undefined", neg |-> FALSE, m |-> <<>>, e |-> 0]
JSNaN == [t |-> "NaN", neg |-> FALSE, m |-> <<>>, e |-> 0]
JSInfinity(neg) == [t |-> "Infinity", neg |-> neg, m |-> <<>>, e |-> 0]
JSFinite(neg, m, e) == [t |-> "finite", neg |-> neg, m |-> m, e |-> e]

\* a \div 2^k.
RECURSIVE HalveTimes(_, _)
HalveTimes(a, k) ==
  IF k = 0 THEN a
  ELSE IF k = 1 THEN Halve(a)
  ELSE LET part == HalveTimes(a, k \div 2)
       IN IF part = <<>> THEN <<>> ELSE HalveTimes(part, k - (k \div 2))

\* m = odd * 2^twos for a natural m > 0 with fewer than 2 * step factors
\* 2, for a power of two step: the factors are taken out step at a time
\* (part is m \div 2^step), then in halves of step.
RECURSIVE OddPartBy(_, _)
MoreTwos(p, k) == [odd |-> p.odd, twos |-> p.twos + k]

TakeOut(m, step, part) ==
  IF part # <<>> /\ MulPow2(part, step) = m
  THEN MoreTwos(OddPartBy(part, step \div 2), step)
  ELSE OddPartBy(m, step \div 2)

OddPartBy(m, step) ==
  IF step = 0 \/ m[Len(m)] % 2 = 1 THEN [odd |-> m, twos |-> 0]
  ELSE TakeOut(m, step, HalveTimes(m, step))

\* m = odd * 2^twos for a natural m > 0 below 2^64 (a significand is at
\* most 2^53).
OddPart(m) == OddPartBy(m, 32)

\* The finite number (-1)^neg * m * 2^e, with the factors 2 of m moved
\* into the exponent.
OddTimes(neg, p, e) == JSFinite(neg, p.odd, e + p.twos)

Finite(neg, m, e) ==
  IF m = <<>> THEN JSFinite(neg, <<>>, 0) ELSE OddTimes(neg, OddPart(m), e)

\* A is doubled until A / B52 is at least 1 or the shift s is that of the
\* subnormal numbers.
RECURSIVE ShiftUp(_, _, _)
ShiftUp(A, B52, s) ==
  IF s < 1074 /\ Cmp(A, B52) < 0
  THEN LET A2 == Double(A)
       IN IF A2 = <<>> THEN [A |-> A2, s |-> s] ELSE ShiftUp(A2, B52, s + 1)
  ELSE [A |-> A, s |-> s]

\* The double nearest to (qr.q + qr.r / B0) * 2^e for a remainder
\* qr.r < B0: ties go to the even significand.
RoundQuotient(neg, qr, B0, e) ==
  LET half == Cmp(Double(qr.r), B0)
      odd == qr.q # <<>> /\ qr.q[Len(qr.q)] % 2 = 1
      m == IF half > 0 \/ (half = 0 /\ odd) THEN Add(qr.q, <<1>>) ELSE qr.q
  IN IF e > 971 \/ (e = 971 /\ m = TwoTo53)
     THEN JSInfinity(neg)
     ELSE Finite(neg, m, e)

RoundShifted(neg, up, B0) ==
  RoundQuotient(neg, DivMod(up.A, B0), B0, -up.s)

RoundScaled(neg, A0, B0, s0) ==
  RoundShifted(neg, ShiftUp(A0, MulPow2(B0, 52), s0), B0)

\* The double nearest to A / B (ties to the even significand), for
\* naturals A and B > 0: the significand is the quotient of A * 2^s by B
\* for the shift s that gives it 53 bits, or for s = 1074.
RoundToDouble(neg, A, B) ==
  IF A = <<>> THEN JSFinite(neg, <<>>, 0)
  ELSE IF B = <<1>> /\ Cmp(A, TwoTo53) <= 0 THEN Finite(neg, A, 0)
  ELSE IF Len(A) - Len(B) > 310 THEN JSInfinity(neg)
  ELSE IF Len(A) - Len(B) < -330 THEN JSFinite(neg, <<>>, 0)
  ELSE
    LET d == Len(A) - Len(B)
        \* A / B < 10^(d+1) <= 2^bits
        bits == (((d + 1) * 3322) \div 1000) + 2
        s0 == IF 53 - bits > 1074 THEN 1074 ELSE 53 - bits
    IN RoundScaled(neg,
                   IF s0 > 0 THEN MulPow2(A, s0) ELSE A,
                   IF s0 < 0 THEN MulPow2(B, -s0) ELSE B,
                   s0)

\* The numerator and the denominator of a finite number.
Numerator(v) == IF v.e > 0 THEN MulPow2(v.m, v.e) ELSE v.m
Denominator(v) == IF v.e < 0 THEN MulPow2(<<1>>, -v.e) ELSE <<1>>

\* ------------------------------------------------ JS numbers: Number()
\* StrWhiteSpaceChar: the white space and the line terminators of
\* ECMAScript (TAB, LF, CR, FF, SP, VT, NBSP, U+1680, U+FEFF, U+2000 to
\* U+200A, U+2028, U+2029, U+202F, U+205F, U+3000).  A character that a
\* TLA+ string cannot hold is written as its code point.
WhiteSpace ==
  { "\t", "\n", "\r", "\f", " ", "", " ", " ", "﻿",
    "U+2000", "U+2001", "U+2002", "U+2003", "U+2004", "U+2005", "U+2006",
    "U+2007", "U+2008", "U+2009", "U+200A", "U+2028", "U+2029", "U+202F",
    "U+205F", "U+3000" }

\* The string without the white space at its ends.
Trim(s) ==
  IF \A i \in DOMAIN s : s[i] \in WhiteSpace THEN <<>>
  ELSE LET lo == CHOOSE i \in DOMAIN s :
                   s[i] \notin WhiteSpace
                   /\ \A j \in 1..(i - 1) : s[j] \in WhiteSpace
           hi == CHOOSE i \in DOMAIN s :
                   s[i] \notin WhiteSpace
                   /\ \A j \in (i + 1)..Len(s) : s[j] \in WhiteSpace
       IN SubSeq(s, lo, hi)

HexDigits ==
  <<"0", "1", "2", "3", "4", "5", "6", "7", "8", "9",
    "a", "b", "c", "d", "e", "f">>
UpperHexDigits == <<"A", "B", "C", "D", "E", "F">>

\* The value of a character as a digit; 99 for any other character.
CharValue(c) ==
  IF \E i \in 1..16 : HexDigits[i] = c
  THEN (CHOOSE i \in 1..16 : HexDigits[i] = c) - 1
  ELSE IF \E i \in 1..6 : UpperHexDigits[i] = c
  THEN (CHOOSE i \in 1..6 : UpperHexDigits[i] = c) + 9
  ELSE 99

AllDigits(s, radix) == \A i \in DOMAIN s : CharValue(s[i]) < radix

\* The natural number that the digits s denote in the radix 2^bits.
RECURSIVE RadixValue(_, _)
RadixValue(s, bits) ==
  IF s = <<>> THEN <<>>
  ELSE IF Len(s) = 1
  THEN StripZeros(<<CharValue(s[1]) \div 10, CharValue(s[1]) % 10>>)
  ELSE LET h == Len(s) \div 2
       IN Add(MulPow2(RadixValue(SubSeq(s, 1, h), bits), bits * (Len(s) - h)),
              RadixValue(SubSeq(s, h + 1, Len(s)), bits))

\* The position of the first character of s that is in set; 0 if none is.
FirstOf(s, set) ==
  IF \A i \in DOMAIN s : s[i] \notin set THEN 0
  ELSE CHOOSE i \in DOMAIN s :
         s[i] \in set /\ \A j \in 1..(i - 1) : s[j] \notin set

\* The number of zeros at the end of the digits a.
TrailingZeros(a) ==
  IF \A i \in DOMAIN a : a[i] = 0 THEN Len(a)
  ELSE Len(a) - (CHOOSE i \in DOMAIN a :
                   a[i] # 0 /\ \A j \in (i + 1)..Len(a) : a[j] = 0)

\* The double nearest to D * 10^x.
DecimalToDouble(neg, D, x) ==
  LET t == IF TrailingZeros(D) < -x THEN TrailingZeros(D) ELSE -x
  IN IF D = <<>> THEN JSFinite(neg, <<>>, 0)
     ELSE IF Len(D) + x >= 311 THEN JSInfinity(neg)
     ELSE IF Len(D) + x <= -325 THEN JSFinite(neg, <<>>, 0)
     ELSE RoundToDouble(neg,
                        IF x >= 0 THEN MulPow10(D, x)
                        ELSE SubSeq(D, 1, Len(D) - t),
                        IF x >= 0 THEN <<1>> ELSE MulPow10(<<1>>, -x - t))

\* The digits of a small natural number as a natural of any size.
Natural(n) ==
  StripZeros(<<>> \o [i \in DOMAIN DecimalString(n) |->
                       DigitValue(DecimalString(n)[i])])

\* The value of the digits s of an exponent where it is at most most, and
\* most where it is above: the digits may denote a natural of any size.
ExponentValue(s, most) ==
  LET E == StripZeros(<<>> \o [i \in DOMAIN s |-> CharValue(s[i])])
  IN IF Cmp(E, Natural(most)) > 0 THEN most
     ELSE DecimalValue(<<>> \o [i \in DOMAIN E |-> Digits[E[i] + 1]])

\* 10^x with x of the sign neg and of the size of the exponent digits
\* edig scales the digits of a mantissa of which frac are after the point.
\* The exponent is exact up to 400 above the length of the mantissa; with
\* an exponent above that, and so with the one taken in its place, the
\* number is above every double or is nearer to 0 than to any other.
Scale(eneg, edig, digits, frac) ==
  (IF eneg THEN -ExponentValue(edig, Len(digits) + 400)
   ELSE ExponentValue(edig, Len(digits) + 400)) - Len(frac)

\* StrUnsignedDecimalLiteral: Infinity, or digits with an optional
\* fraction and an optional exponent; NaN for any other string.
UnsignedDecimal(neg, s) ==
  LET ePos == FirstOf(s, {"e", "E"})
      mant == IF ePos = 0 THEN s ELSE SubSeq(s, 1, ePos - 1)
      expo == IF ePos = 0 THEN <<>> ELSE SubSeq(s, ePos + 1, Len(s))
      eneg == expo # <<>> /\ expo[1] = "-"
      edig == IF expo # <<>> /\ expo[1] \in {"+", "-"} THEN Tail(expo)
              ELSE expo
      dot == FirstOf(mant, {"."})
      int == IF dot = 0 THEN mant ELSE SubSeq(mant, 1, dot - 1)
      frac == IF dot = 0 THEN <<>> ELSE SubSeq(mant, dot + 1, Len(mant))
      digits == int \o frac
  IN IF s = <<"I", "n", "f", "i", "n", "i", "t", "y">> THEN JSInfinity(neg)
     ELSE IF /\ digits # <<>>
             /\ AllDigits(digits, 10)
             /\ ePos # 0 => edig # <<>> /\ AllDigits(edig, 10)
     THEN DecimalToDouble(
            neg,
            StripZeros(<<>> \o [i \in DOMAIN digits |-> CharValue(digits[i])]),
            Scale(eneg, edig, digits, frac))
     ELSE JSNaN

\* Number(str), the StringToNumber of ECMAScript: white space at the ends
\* is dropped; the empty string is 0; 0x, 0o and 0b start an unsigned
\* integer in radix 16, 8 and 2; a decimal literal may have a sign.
Number(str) ==
  LET s == Trim(str)
  IN IF s = <<>> THEN JSFinite(FALSE, <<>>, 0)
     ELSE IF Len(s) >= 2 /\ s[1] = "0"
             /\ s[2] \in {"x", "X", "o", "O", "b", "B"}
     THEN LET bits == CASE s[2] \in {"x", "X"} -> 4
                        [] s[2] \in {"o", "O"} -> 3
                        [] OTHER -> 1
              body == SubSeq(s, 3, Len(s))
          IN IF body # <<>> /\ AllDigits(body, 2^bits)
             THEN RoundToDouble(FALSE, RadixValue(body, bits), <<1>>)
             ELSE JSNaN
     ELSE UnsignedDecimal(s[1] = "-",
                          IF s[1] \in {"+", "-"} THEN Tail(s) ELSE s)

\* String.prototype.split(sep): the pieces of s between occurrences of sep.
RECURSIVE Split(_, _)
Split(s, sep) ==
  IF \A i \in 1..Len(s) : s[i] # sep THEN <<s>>
  ELSE LET k == CHOOSE i \in 1..Len(s) :
                  s[i] = sep /\ \A j \in 1..(i - 1) : s[j] # sep
       IN <<SubSeq(s, 1, k - 1)>> \o Split(SubSeq(s, k + 1, Len(s)), sep)

\* Array destructuring: the i-th element, or undefined past the end.
Element(arr, i) == IF i <= Len(arr) THEN arr[i] ELSE JSUndefined

MapNumber(parts) == <<>> \o [i \in 1..Len(parts) |-> Number(parts[i])]

\* The double nearest to (-1)^neg * A / B + 1.
PlusOneRatio(neg, A, B) ==
  RoundToDouble(neg /\ Cmp(A, B) > 0,
                IF ~neg THEN Add(A, B)
                ELSE IF Cmp(A, B) > 0 THEN Sub(A, B) ELSE Sub(B, A),
                B)

\* v + 1 on a JS value: undefined + 1 and NaN + 1 are NaN, an infinity
\* stays, and a finite sum is rounded to the nearest double.
PlusOne(v) ==
  CASE v.t \in {"undefined", "NaN"} -> JSNaN
    [] v.t = "Infinity" -> v
    [] OTHER -> PlusOneRatio(v.neg, Numerator(v), Denominator(v))

\* ---------------------------------------------- JS numbers: to string
\* The significand and the exponent of the IEEE 754 encoding of
\* m * 2^e: the significand has 53 bits, or the exponent is -1074.  The
\* significand is m doubled as often as that allows, which is fewer than
\* 2 * step times for a power of two step.
RECURSIVE SignificandBy(_, _, _)
SignificandBy(m, e, step) ==
  IF step = 0 THEN [m |-> m, e |-> e]
  ELSE LET more == MulPow2(m, step)
       IN IF e - step >= -1074 /\ Cmp(more, TwoTo53) < 0
          THEN SignificandBy(more, e - step, step \div 2)
          ELSE SignificandBy(m, e, step \div 2)

Significand(m, e) == SignificandBy(m, e, 32)

\* Number::toString takes the fewest digits s (k of them) for which
\* s * 10^(n-k) is nearer to v than to any other double, which is: within
\* half the gap between v and its neighbour, the bound included when the
\* significand of v is even.  Below the significand 2^52 the gap is half
\* as wide.  Here v = A / B with 10^(n-1) <= v < 10^n, w is the
\* significand and the exponent of v and the gap above v is U / B.
\*
\* Of the numerals of k digits the two around v are lo and hi; below and
\* above are twice their distances from v (in units of 1 / den).  Whether
\* one of the two is that near (ok), and then the one nearer to v, the
\* even one if they are as near.
Nearer(w, lo, hi, below, above, exact, den, gap, n, k) ==
  LET even == w.m[Len(w.m)] % 2 = 0
      narrow == w.m = TwoTo52 /\ w.e > -1074
      within(twice) == IF even THEN Cmp(twice, gap) <= 0
                       ELSE Cmp(twice, gap) < 0
      loOk == within(IF narrow THEN Double(below) ELSE below)
      hiOk == ~exact /\ within(above)
      pick == IF loOk /\ hiOk
              THEN (IF Cmp(below, den) < 0
                       \/ (Cmp(below, den) = 0 /\ lo[Len(lo)] % 2 = 0)
                    THEN lo ELSE hi)
              ELSE IF loOk THEN lo ELSE hi
  IN IF ~loOk /\ ~hiOk THEN [ok |-> FALSE, digits |-> <<>>, n |-> n]
     ELSE IF Len(pick) > k THEN [ok |-> TRUE, digits |-> <<1>>, n |-> n + 1]
     ELSE [ok |-> TRUE, digits |-> pick, n |-> n]

Around(w, qr, den, gap, n, k) ==
  Nearer(w, qr.q, Add(qr.q, <<1>>), Double(qr.r), Double(Sub(den, qr.r)),
         qr.r = <<>>, den, gap, n, k)

OfDigits(w, A, B, U, n, k) ==
  Around(w,
         DivMod(IF k >= n THEN MulPow10(A, k - n) ELSE A,
                IF k >= n THEN B ELSE MulPow10(B, n - k)),
         IF k >= n THEN B ELSE MulPow10(B, n - k),
         IF k >= n THEN MulPow10(U, k - n) ELSE U,
         n, k)

\* The numeral of the fewest digits among those of from..to digits, where
\* found is one of `to` digits that is near enough: with a numeral of k
\* digits one of k + 1 digits is near enough too, so the numerals of
\* (from + to) \div 2 digits are tried.
RECURSIVE ShortestFrom(_, _, _, _, _, _, _, _)
Tried(w, A, B, U, n, from, to, found, tried) ==
  IF tried.ok
  THEN ShortestFrom(w, A, B, U, n, from, (from + to) \div 2, tried)
  ELSE ShortestFrom(w, A, B, U, n, ((from + to) \div 2) + 1, to, found)

ShortestFrom(w, A, B, U, n, from, to, found) ==
  IF from = to THEN [digits |-> found.digits, n |-> found.n]
  ELSE Tried(w, A, B, U, n, from, to, found,
             OfDigits(w, A, B, U, n, (from + to) \div 2))

\* The decimal exponent n of A / B: 10^(n-1) <= A / B < 10^n.
DecimalExponent(A, B) ==
  LET d == Len(A) - Len(B)
  IN IF Cmp(MulPow10(A, IF d < 0 THEN -d ELSE 0),
            MulPow10(B, IF d > 0 THEN d ELSE 0)) >= 0
     THEN d + 1 ELSE d

\* Any double has a numeral of at most 17 digits.
ShortestRatio(w, A, B, U, n) ==
  ShortestFrom(w, A, B, U, n, 1, 17, OfDigits(w, A, B, U, n, 17))

ShortestOf(w, A, B) ==
  ShortestRatio(w, A, B, IF w.e > 0 THEN MulPow2(<<1>>, w.e) ELSE <<1>>,
                DecimalExponent(A, B))

ShortestSignificand(w) == ShortestOf(w, Numerator(w), Denominator(w))

\* An integer up to 2^53 is written out in full.
ShortestOdd(odd, whole) ==
  IF odd.e >= 0 /\ Cmp(whole, TwoTo53) <= 0
  THEN [digits |-> whole, n |-> Len(whole)]
  ELSE ShortestSignificand(Significand(odd.m, odd.e))

ShortestFinite(odd) == ShortestOdd(odd, Numerator(odd))

\* The digits and the decimal exponent of the numeral of a finite v # 0.
Shortest(v) == ShortestFinite(Finite(v.neg, v.m, v.e))

DigitChars(a) == <<>> \o [i \in DOMAIN a |-> Digits[a[i] + 1]]

Zeros(k) == <<>> \o [i \in 1..k |-> "0"]

\* Number::toString of a positive finite number with the digits d and the
\* decimal exponent n.
Numeral(d, n) ==
  LET k == Len(d)
      c == DigitChars(d)
      exponent == <<"e">> \o (IF n - 1 < 0 THEN <<"-">> ELSE <<"+">>)
                    \o DecimalString(IF n - 1 < 0 THEN 1 - n ELSE n - 1)
  IN IF k <= n /\ n <= 21 THEN c \o Zeros(n - k)
     ELSE IF 0 < n /\ n <= 21
     THEN SubSeq(c, 1, n) \o <<".">> \o SubSeq(c, n + 1, k)
     ELSE IF -6 < n /\ n <= 0 THEN <<"0", ".">> \o Zeros(-n) \o c
     ELSE IF k = 1 THEN c \o exponent
     ELSE <<c[1], ".">> \o SubSeq(c, 2, k) \o exponent

NumeralOfShortest(s) == Numeral(s.digits, s.n)

\* Template-literal conversion `${v}` of a number or undefined.
TemplateString(v) ==
  CASE v.t = "undefined" -> <<"u", "n", "d", "e", "f", "i", "n", "e", "d">>
    [] v.t = "NaN" -> <<"N", "a", "N">>
    [] v.t = "Infinity" ->
       (IF v.neg THEN <<"-">> ELSE <<>>)
         \o <<"I", "n", "f", "i", "n", "i", "t", "y">>
    [] OTHER ->
       IF v.m = <<>> THEN <<"0">>
       ELSE (IF v.neg THEN <<"-">> ELSE <<>>)
              \o NumeralOfShortest(Shortest(v))

\* Line 75: `${major}.${minor}.${patch + 1}` for [major, minor, patch] = nums.
Joined(str) == str[1] \o <<".">> \o str[2] \o <<".">> \o str[3]

Template(nums) ==
  Joined([i \in 1..3 |->
            TemplateString(IF i = 3 THEN PlusOne(Element(nums, 3))
                           ELSE Element(nums, i))])

\* Lines 72-75: `${major}.${minor}.${patch + 1}` of version.split(".").map(Number).
NewVersion(version) == Template(MapNumber(Split(version, ".")))

\* ------------------------------------------------------------- inputs
\* event.properties.sessionID of the session.idle events delivered.
Sessions == {"ses_A", "ses_B"}

\* What `await $`pnpm build`.catch((error) => error)` can evaluate to: the
\* shell output of a build that exited 0, the ShellError of a build that
\* exited non-zero (it carries exitCode and stderr), or an Error raised
\* because the command could not be run (no exitCode, no stderr).
BuildSucceeded == [exitCode |-> Some(0), stderr |-> Some("")]
BuildFailed == [exitCode |-> Some(1), stderr |-> Some("type error on line 5")]
LaunchError == [exitCode |-> Undefined, stderr |-> Undefined]
BuildResults == {BuildSucceeded, BuildFailed, LaunchError}
NoResult == LaunchError

\* What `await client.session.get(...)` can resolve to: no data (an error
\* response), a session with an empty title, a session with a title.
SessionResponses ==
  { [data |-> Undefined],
    [data |-> Some([title |-> Some(<<>>)])],
    [data |-> Some([title |-> Some(<<"Add login page">>)])] }
NoResponse == [data |-> Undefined]

\* package.json as parsed: its version field is a string or is missing.
Manifest(version) == [name |-> "app", version |-> version]
\* The file's content: JSON text of an object, or text JSON.parse rejects
\* (the empty text of a truncated file is such a text).
JsonFile(obj) == [json |-> TRUE, value |-> obj]
GarbageFile == [json |-> FALSE, value |-> Manifest(Undefined)]
\* JSON.stringify(packageJson, null, 2), line 95.
Stringify(obj) == JsonFile(obj)

\* package.json before the first event: a version, no version field, or
\* text that is not JSON.
InitialManifests ==
  { JsonFile(Manifest(Some(<<"2", ".", "0", ".", "9">>))),
    JsonFile(Manifest(Undefined)),
    GarbageFile }

\* Version fields of a package.json: major.minor.patch with small
\* components, with a patch of 2^53 - 2, 2^53 - 1 and 2^53, with a major
\* above 2^53 and one near 2^69, and strings that are not of that form.
TwoTo53Minus2 == Sub(TwoTo53, <<2>>)
TwoTo53Minus1 == Sub(TwoTo53, <<1>>)
TwoTo53Plus1 == Add(TwoTo53, <<1>>)
PublishVersions ==
  { <<"2", ".", "0", ".", "9">>,
    <<"0", ".", "0", ".", "0">>,
    <<"1", ".", "2", ".", "9", "9">>,
    <<"1", ".", "2", ".">> \o DigitChars(TwoTo53Minus2),
    <<"1", ".", "2", ".">> \o DigitChars(TwoTo53Minus1),
    <<"1", ".", "2", ".">> \o DigitChars(TwoTo53),
    DigitChars(TwoTo53Plus1) \o <<".", "0", ".", "0">>,
    <<"1", ".", "2">>,
    <<"1", ".", "2", ".", "1", "e", "3">>,
    <<"1", ".", "2", ".", "0", "x", "1", "0">>,
    <<"1", ".", "2", ".", "-", "3">>,
    <<"1", ".", "2", ".", " ", "3">>,
    <<"1", ".", "2", ".", " ", "3">>,
    <<"1", ".", "2", ".", "3", "U+2003">>,
    <<"5", "9", "0", "2", "9", "5", "8", "1", "0", "3", "5", "8", "7", "0",
      "5", "6", "5", "1", "7", "1", "1", ".", "0", ".", "0">>,
    <<"1", ".", "5", "e", "-", "1", ".", "3">> }
PublishManifests == { JsonFile(Manifest(Some(v))) : v \in PublishVersions }

\* The values of the environment variable of the status endpoint: unset, or
\* a URL.
EnvironmentValues == { Undefined, Some("http://orchestrator/status") }

\* z.string() accepts a string and nothing else; parse throws on a value it
\* does not accept.
ZString(v) == [success |-> v # Undefined, data |-> v]

\* -------------------------------------------------------------- state
VARIABLES
  tries,          \* client.session["tries"]: undefined or a number
  handlers,       \* the suspended activations of the "event" hook: a bag of
                  \* records of the await each is suspended at (pc), its
                  \* locals sessionID, result, packageJson, newVersion,
                  \* session, commitMessage, how far the fs.readFile, git
                  \* tag or fs.writeFile it awaits has got (read, tagged,
                  \* write), and the awaits of the try block it has
                  \* passed (completed)
  manifestFile,   \* content of package.json
  tags,           \* versions v of the tags "v<v>" of the repository
  effects,        \* what the latest step did, in order: the event delivered
                  \* or await resumed, the calls made on collaborators, and
                  \* how the handler settled if it did; or the step of the
                  \* file system that a write has taken
  events,         \* events delivered so far
  env,            \* process.env.TAYLORDB_VM_ORCHESTRATION_STATUS_UPDATE_URL
  pending         \* the number of suspended activations of the
                  \* "chat.message" hook, which has no locals: each is
                  \* suspended at the await of line 107

vars == <<tries, handlers, manifestFile, tags, effects, events, env, pending>>

Init ==
  /\ tries = Undefined
  /\ handlers = EmptyBag
  /\ manifestFile \in InitialManifests
  /\ tags = {}
  /\ effects = <<>>
  /\ events = 0
  /\ env \in EnvironmentValues
  /\ pending = 0

\* ------------------------------------------------------------ helpers
\* Lines 6-13: the module parses the environment when it is loaded.
vmOrchestrationStatusUpdateUrl == ZString(env)

\* Lines 6-33: the plugin is exported, and its hooks exist, only when the
\* statements before the export have not thrown.
ModuleLoaded == vmOrchestrationStatusUpdateUrl.success

\* The activation of the handler of a session.idle event, at line 38.
Activation(s) ==
  [ pc |-> "build", sessionID |-> s, result |-> NoResult,
    packageJson |-> Manifest(Undefined), newVersion |-> <<>>,
    session |-> NoResponse, commitMessage |-> <<>>,
    \* fs.writeFile opens the file with truncation, writes the text and
    \* closes the file in turns of the event loop of their own: "none"
    \* before the call, then "called", "truncated", "stored"
    write |-> "none",
    \* what the fs.readFile it has called has read: nothing yet, or the
    \* content of package.json
    read |-> Undefined,
    \* whether the git tag it has run has created the tag
    tagged |-> FALSE,
    \* observer, not a local: packageJson.version as line 71 parsed it,
    \* which line 92 replaces
    fromVersion |-> Undefined,
    \* observer, not a local: the awaits that this activation has passed
    \* without an exception in the try block it is in
    completed |-> {} ]

Suspended == BagToSet(handlers)
InFlight == BagCardinality(handlers)

Effect(op, arg) == [op |-> op, arg |-> arg]

\* The await at which an activation resumed, with what the activation
\* knows then.
Resumed(at, a, ok) ==
  <<Effect("resumed", [at |-> at, sessionID |-> a.sessionID,
                       result |-> a.result, ok |-> ok])>>

\* How the handler settled: its promise resolved ("return") or rejected
\* ("throw").
Settled(how, a) ==
  <<Effect(how, [sessionID |-> a.sessionID, result |-> a.result])>>

\* Lines 19-31: the body of updateAppStatus is commented out, so a call
\* sends no PUT to the status endpoint; the call itself is what is observed.
UpdateAppStatus(status) == <<Effect("updateAppStatus", status)>>

\* JavaScript truthiness of client.session["tries"]: undefined and 0 are falsy.
Falsy(t) == t = Undefined \/ t[1] = 0

\* Lines 41-45: if (!tries) tries = 0; else tries++.
TriesAfterFailure(t) == IF Falsy(t) THEN Some(0) ELSE Some(t[1] + 1)

\* Lines 41-47: the retry counter the handler of an event of session s
\* reads and writes is the one property "tries" of client.session.
RetryCounter(s) == tries

\* A mutant of BudgetExceeded: the budget is spent as soon as the counter
\* exists.
BudgetExceededAtZero(t) == t # Undefined /\ t[1] >= 0

\* Line 47: tries > 3 (undefined > 3 is false).
BudgetExceeded(t) == t # Undefined /\ t[1] > 3

\* Line 61: the text of the follow-up message.
PromptText(stderr) ==
  << "While building the project, the following error occurred:\n\n",
     stderr,
     "\n\nPlease fix the error and try again." >>

\* Lines 55-65: the follow-up sent with client.session.prompt.
Prompt(id, stderr) ==
  <<Effect("prompt", [id |-> id, text |-> PromptText(stderr)])>>

\* Lines 81-82: session.data?.title ?? `feat: release version v${newVersion}`.
CommitMessage(resp, version) ==
  IF resp.data # Undefined /\ resp.data[1].title # Undefined
  THEN resp.data[1].title[1]
  ELSE <<"feat: release version v">> \o version

\* The activation a goes on as b, suspended at its next await, after calls.
Continue(a, b, head, calls) ==
  /\ handlers' = (handlers (-) SetToBag({a})) (+) SetToBag({b})
  /\ effects' = head \o calls

\* The activation a ends as b after calls: its promise resolves or rejects.
Settle(a, b, head, calls, how) ==
  /\ handlers' = handlers (-) SetToBag({a})
  /\ effects' = head \o calls \o Settled(how, b)

\* Line 101: after the try statement updateAppStatus("Active") is called
\* and awaited.  The constants declared in the try block (packageJson,
\* newVersion, session, commitMessage) have gone with the block.
AfterTry(a, head) ==
  Continue(a, [Activation(a.sessionID) EXCEPT !.pc = "emitActive",
                                              !.result = a.result],
           head, UpdateAppStatus("Active"))

\* A mutant of Catch: the exception of the try block leaves the handler.
CatchRethrows(a, head) == Settle(a, a, head, <<>>, "throw")

\* Lines 97-101: an exception of the try block is logged, then the code
\* after the try statement runs.
Catch(a, head) == AfterTry(a, head)

\* A mutant of EnterTry: Active is emitted before the release is attempted.
EnterTryEmitsActive(a, b, head) ==
  Continue(a, [b EXCEPT !.pc = "readFile"], head,
           UpdateAppStatus("Active") \o <<Effect("readFile", "package.json")>>)

\* Lines 69-70 start the try block: fs.readFile is called.
EnterTry(a, b, head) ==
  Continue(a, [b EXCEPT !.pc = "readFile"], head,
           <<Effect("readFile", "package.json")>>)

\* ------------------------------------------------------------ actions
\* Lines 35-38: a session.idle event starts `pnpm build`.  Nothing in the
\* hook relates the event to handlers of earlier events that are suspended.
EventIdle(s) ==
  /\ ModuleLoaded
  /\ InFlight < MaxInFlight
  /\ events' = events + 1
  /\ handlers' = handlers (+) SetToBag({Activation(s)})
  /\ effects' = <<Effect("event", [type |-> "session.idle", sessionID |-> s]),
                  Effect("build", "pnpm build")>>
  /\ UNCHANGED <<tries, manifestFile, tags, env, pending>>

\* Line 36: an event of any other type returns at once.
EventOther(s) ==
  /\ ModuleLoaded
  /\ events' = events + 1
  /\ effects' = <<Effect("event", [type |-> "other", sessionID |-> s])>>
  /\ UNCHANGED <<tries, handlers, manifestFile, tags, env, pending>>

\* A mutant of ChatMessage: a message also clears the retry counter.
ChatMessageClearsTries ==
  /\ ModuleLoaded
  /\ events' = events + 1
  /\ pending' = pending + 1
  /\ effects' = <<Effect("chat.message", "")>> \o UpdateAppStatus("Pending")
  /\ tries' = Undefined
  /\ UNCHANGED <<handlers, manifestFile, tags, env>>

\* Lines 106-107: the "chat.message" hook calls updateAppStatus("Pending")
\* and is suspended at the await of the call.
ChatMessage ==
  /\ ModuleLoaded
  /\ events' = events + 1
  /\ pending' = pending + 1
  /\ effects' = <<Effect("chat.message", "")>> \o UpdateAppStatus("Pending")
  /\ UNCHANGED <<tries, handlers, manifestFile, tags, env>>

\* What a step of an activation of the "chat.message" hook reports of it:
\* the hook takes no argument and has started no build.
Message == [sessionID |-> "", result |-> NoResult]

\* Lines 107-110: the awaited updateAppStatus("Pending") has resolved (it
\* never rejects); the hook logs and returns.
ChatMessageDone ==
  /\ pending > 0
  /\ pending' = pending - 1
  /\ effects' = Resumed("emitPending", Message, TRUE)
                  \o Settled("return", Message)
  /\ UNCHANGED <<tries, handlers, manifestFile, tags, events, env>>

\* Lines 38-70: the build of activation a has ended with r.  An error
\* without stderr makes result.stderr.toString() raise a TypeError.
BuildDone(a, r) ==
  LET b == [a EXCEPT !.result = r]
      head == Resumed("build", b, TRUE)
  IN
  /\ a.pc = "build"
  /\ IF r.exitCode # Some(0)
     THEN /\ tries' = TriesAfterFailure(tries)
          /\ IF BudgetExceeded(tries')
             THEN \* line 48: updateAppStatus("Errored") is called and awaited
                  Continue(a, [b EXCEPT !.pc = "emitErrored"], head,
                           UpdateAppStatus("Errored"))
             ELSE IF r.stderr = Undefined
             THEN Settle(a, b, head, <<>>, "throw")
             ELSE Continue(a, [b EXCEPT !.pc = "prompt"], head,
                           Prompt(a.sessionID, r.stderr[1]))
     ELSE /\ EnterTry(a, b, head)
          /\ UNCHANGED tries
  /\ UNCHANGED <<manifestFile, tags, events, env, pending>>

\* Lines 55-70: client.session.prompt has settled; when it resolved the
\* handler goes on into the try block.
PromptDone(a, ok) ==
  /\ a.pc = "prompt"
  /\ IF ok
     THEN EnterTry(a, a, Resumed("prompt", a, ok))
     ELSE Settle(a, a, Resumed("prompt", a, ok), <<>>, "throw")
  /\ UNCHANGED <<tries, manifestFile, tags, events, env, pending>>

\* A step that the operation which the activation a awaits takes outside
\* the handler; a stays suspended, as b.
Outside(a, b, op, step) ==
  /\ handlers' = (handlers (-) SetToBag({a})) (+) SetToBag({b})
  /\ effects' = <<Effect(op, [step |-> step, sessionID |-> a.sessionID])>>

\* Lines 69-70: fs.readFile reads what package.json holds, which is the
\* empty text while an fs.writeFile of another activation is between
\* opening the file and writing it; the handler resumes later.
ReadFileRead(a) ==
  /\ a.pc = "readFile"
  /\ a.read = Undefined
  /\ Outside(a, [a EXCEPT !.read = Some(manifestFile)], "fs.readFile", "read")
  /\ UNCHANGED <<tries, manifestFile, tags, events, env, pending>>

\* How far fs.readFile can have got when it settles: it resolves with the
\* content it has read; it rejects when opening or reading has failed.
ReadSettles(read, ok) == IF ok THEN read # Undefined ELSE TRUE

\* The content that a resolved fs.readFile hands to JSON.parse.
Content(a, ok) == IF ok THEN a.read[1] ELSE GarbageFile

\* Lines 69-79: fs.readFile has settled, with the content it has read
\* when it resolved, whatever package.json holds by now; parse, compute
\* newVersion, call client.session.get.
ReadFileDone(a, ok) ==
  /\ a.pc = "readFile"
  /\ ReadSettles(a.read, ok)
  /\ IF ok /\ Content(a, ok).json /\ Content(a, ok).value.version # Undefined
     THEN Continue(a,
                   [a EXCEPT !.completed = @ \cup {"readFile"},
                             !.pc = "sessionGet",
                             !.read = Undefined,
                             !.packageJson = Content(a, ok).value,
                             !.fromVersion = Content(a, ok).value.version,
                             !.newVersion =
                                NewVersion(Content(a, ok).value.version[1])],
                   Resumed("readFile", a, ok),
                   <<Effect("sessionGet", a.sessionID)>>)
     ELSE \* readFile rejected, JSON.parse threw, or version.split threw
          Catch(a, Resumed("readFile", a, ok))
  /\ UNCHANGED <<tries, manifestFile, tags, events, env, pending>>

\* Lines 77-84: client.session.get has settled with resp.
SessionGetDone(a, resp, ok) ==
  /\ a.pc = "sessionGet"
  /\ IF ok
     THEN Continue(a,
                   [a EXCEPT !.completed = @ \cup {"sessionGet"},
                             !.pc = "gitConfigName",
                             !.session = resp,
                             !.commitMessage = CommitMessage(resp, a.newVersion)],
                   Resumed("sessionGet", a, ok),
                   <<Effect("gitConfigName", "Taylor AI")>>)
     ELSE Catch(a, Resumed("sessionGet", a, ok))
  /\ UNCHANGED <<tries, manifestFile, tags, events, env, pending>>

\* Lines 84-85: git config user.name has ended.
GitConfigNameDone(a, ok) ==
  /\ a.pc = "gitConfigName"
  /\ IF ok
     THEN Continue(a, [a EXCEPT !.completed = @ \cup {"gitConfigName"},
                             !.pc = "gitConfigEmail"],
                   Resumed("gitConfigName", a, ok),
                   <<Effect("gitConfigEmail", "ai@taylordb.io")>>)
     ELSE Catch(a, Resumed("gitConfigName", a, ok))
  /\ UNCHANGED <<tries, manifestFile, tags, events, env, pending>>

\* Lines 85-86: git config user.email has ended.
GitConfigEmailDone(a, ok) ==
  /\ a.pc = "gitConfigEmail"
  /\ IF ok
     THEN Continue(a, [a EXCEPT !.completed = @ \cup {"gitConfigEmail"},
                             !.pc = "gitAdd"],
                   Resumed("gitConfigEmail", a, ok),
                   <<Effect("gitAdd", ".")>>)
     ELSE Catch(a, Resumed("gitConfigEmail", a, ok))
  /\ UNCHANGED <<tries, manifestFile, tags, events, env, pending>>

\* Lines 86-87: git add . has ended; git commit -m ${commitMessage} runs.
GitAddDone(a, ok) ==
  /\ a.pc = "gitAdd"
  /\ IF ok
     THEN Continue(a, [a EXCEPT !.completed = @ \cup {"gitAdd"},
                             !.pc = "gitCommit"],
                   Resumed("gitAdd", a, ok),
                   <<Effect("gitCommit", a.commitMessage)>>)
     ELSE Catch(a, Resumed("gitAdd", a, ok))
  /\ UNCHANGED <<tries, manifestFile, tags, events, env, pending>>

\* Lines 87-88: git commit has ended (git aborts a commit whose message
\* is empty); git tag v${newVersion} runs.  No line after line 87 reads
\* session or commitMessage: the state keeps them no longer.
GitCommitDone(a, ok) ==
  /\ a.pc = "gitCommit"
  /\ ok => a.commitMessage # <<>>
  /\ IF ok
     THEN Continue(a, [a EXCEPT !.completed = @ \cup {"gitCommit"},
                             !.session = NoResponse,
                             !.commitMessage = <<>>,
                             !.pc = "gitTag"],
                   Resumed("gitCommit", a, ok),
                   <<Effect("gitTag", a.newVersion)>>)
     ELSE Catch(a, Resumed("gitCommit", a, ok))
  /\ UNCHANGED <<tries, manifestFile, tags, events, env, pending>>

\* Line 88: the git process creates the tag v${newVersion}, which it
\* does only when no tag of that name exists; the handler resumes later.
GitTagCreate(a) ==
  /\ a.pc = "gitTag"
  /\ ~a.tagged
  /\ a.newVersion \notin tags
  /\ tags' = tags \cup {a.newVersion}
  /\ Outside(a, [a EXCEPT !.tagged = TRUE], "git.tag", "create")
  /\ UNCHANGED <<tries, manifestFile, events, env, pending>>

\* How git tag ends: with exit code 0 when it has created the tag, and
\* otherwise (it refuses a tag that exists, or has failed before it
\* created one) with another, which makes the shell throw.
TagSettles(tagged, ok) == ok <=> tagged

\* Lines 88-89: git tag has ended; the tags stay as the process has left
\* them; git push origin main --tags runs.
GitTagDone(a, ok) ==
  /\ a.pc = "gitTag"
  /\ TagSettles(a.tagged, ok)
  /\ IF ok
     THEN Continue(a, [a EXCEPT !.completed = @ \cup {"gitTag"},
                             !.tagged = FALSE,
                             !.pc = "gitPush"],
                   Resumed("gitTag", a, ok),
                   <<Effect("gitPush", "origin main --tags")>>)
     ELSE Catch(a, Resumed("gitTag", a, ok))
  /\ UNCHANGED <<tries, manifestFile, tags, events, env, pending>>

\* A mutant of GitPushDone: a failed push raises no exception, and the
\* manifest is written all the same.
GitPushIgnoresFailure(a, ok) ==
  /\ a.pc = "gitPush"
  /\ Continue(a,
              [a EXCEPT !.pc = "writeFile",
                        !.write = "called",
                        !.packageJson.version = Some(a.newVersion)],
              Resumed("gitPush", a, ok),
              <<Effect("writeFile", a.newVersion)>>)
  /\ UNCHANGED <<tries, manifestFile, tags, events, env, pending>>

\* Lines 89-96: git push has ended; the version of the parsed manifest is
\* set and fs.writeFile is called.
GitPushDone(a, ok) ==
  /\ a.pc = "gitPush"
  /\ IF ok
     THEN Continue(a,
                   [a EXCEPT !.completed = @ \cup {"gitPush"},
                             !.pc = "writeFile",
                             !.write = "called",
                             !.packageJson.version = Some(a.newVersion)],
                   Resumed("gitPush", a, ok),
                   <<Effect("writeFile", a.newVersion)>>)
     ELSE Catch(a, Resumed("gitPush", a, ok))
  /\ UNCHANGED <<tries, manifestFile, tags, events, env, pending>>

\* A step of the file system on behalf of the fs.writeFile that the
\* activation a awaits; a stays suspended.
FileStep(a, b, step) == Outside(a, b, "fs", step)

\* Lines 93-96: fs.writeFile has opened package.json for writing, which
\* truncates it; a handler that reads the file now reads the empty text.
WriteFileOpen(a) ==
  /\ a.pc = "writeFile"
  /\ a.write = "called"
  /\ manifestFile' = GarbageFile
  /\ FileStep(a, [a EXCEPT !.write = "truncated"], "open")
  /\ UNCHANGED <<tries, tags, events, env, pending>>

\* Lines 93-96: fs.writeFile has written the text into the file it opened.
WriteFileWrite(a) ==
  /\ a.pc = "writeFile"
  /\ a.write = "truncated"
  /\ manifestFile' = Stringify(a.packageJson)
  /\ FileStep(a, [a EXCEPT !.write = "stored"], "write")
  /\ UNCHANGED <<tries, tags, events, env, pending>>

\* How far fs.writeFile can have got when it settles: it resolves when the
\* text is stored and the file closed; it rejects when opening, writing or
\* closing has failed.
WriteSettles(write, ok) == IF ok THEN write = "stored" ELSE TRUE

\* Lines 93-101: fs.writeFile has settled; package.json stays as the steps
\* of the write have left it.
WriteFileDone(a, ok) ==
  /\ a.pc = "writeFile"
  /\ WriteSettles(a.write, ok)
  /\ IF ok
     THEN AfterTry(a, Resumed("writeFile", a, ok))
     ELSE Catch(a, Resumed("writeFile", a, ok))
  /\ UNCHANGED <<tries, manifestFile, tags, events, env, pending>>

\* Lines 48-52 and 101-103: the awaited updateAppStatus has resolved (it
\* never rejects); the handler logs and returns.
StatusDone(a) ==
  /\ a.pc \in {"emitActive", "emitErrored"}
  /\ Settle(a, a, Resumed(a.pc, a, TRUE), <<>>, "return")
  /\ UNCHANGED <<tries, manifestFile, tags, events, env, pending>>

\* An awaited operation of a suspended activation completes.
Resume ==
  \/ \E a \in Suspended, r \in BuildResults : BuildDone(a, r)
  \/ \E a \in Suspended, ok \in BOOLEAN : PromptDone(a, ok)
  \/ \E a \in Suspended : ReadFileRead(a)
  \/ \E a \in Suspended, ok \in BOOLEAN : ReadFileDone(a, ok)
  \/ \E a \in Suspended, resp \in SessionResponses, ok \in BOOLEAN :
       SessionGetDone(a, resp, ok)
  \/ \E a \in Suspended, ok \in BOOLEAN : GitConfigNameDone(a, ok)
  \/ \E a \in Suspended, ok \in BOOLEAN : GitConfigEmailDone(a, ok)
  \/ \E a \in Suspended, ok \in BOOLEAN : GitAddDone(a, ok)
  \/ \E a \in Suspended, ok \in BOOLEAN : GitCommitDone(a, ok)
  \/ \E a \in Suspended : GitTagCreate(a)
  \/ \E a \in Suspended, ok \in BOOLEAN : GitTagDone(a, ok)
  \/ \E a \in Suspended, ok \in BOOLEAN : GitPushDone(a, ok)
  \/ \E a \in Suspended : WriteFileOpen(a)
  \/ \E a \in Suspended : WriteFileWrite(a)
  \/ \E a \in Suspended, ok \in BOOLEAN : WriteFileDone(a, ok)
  \/ \E a \in Suspended : StatusDone(a)

\* The host delivers events at any time, also while handlers of earlier
\* events are suspended.
Next ==
  \/ \E s \in Sessions : events < MaxEvents /\ EventIdle(s)
  \/ \E s \in Sessions : events < MaxEvents /\ EventOther(s)
  \/ events < MaxEvents /\ ChatMessage
  \/ ChatMessageDone
  \/ Resume

Spec == Init /\ [][Next]_vars

\* Runs in which an idle event is delivered only when the handler of the
\* event before it has settled.
SerialNext ==
  \/ \E s \in Sessions : events < MaxEvents /\ InFlight = 0 /\ EventIdle(s)
  \/ Resume

SerialSpec == Init /\ [][SerialNext]_vars

\* The runs of SerialSpec from a package.json with any of the version
\* fields of PublishVersions.
PublishInit ==
  /\ tries = Undefined
  /\ handlers = EmptyBag
  /\ manifestFile \in PublishManifests
  /\ tags = {}
  /\ effects = <<>>
  /\ events = 0
  /\ env \in EnvironmentValues
  /\ pending = 0

PublishSpec == PublishInit /\ [][SerialNext]_vars

\* A run of consecutive idle events of one session whose builds all exit
\* non-zero, each delivered after the handler of the one before it has
\* settled: `events` is the number of failed builds of the session so far.
FailingRunNext ==
  \/ events < MaxFailures /\ InFlight = 0 /\ EventIdle("ses_A")
  \/ \E a \in Suspended : BuildDone(a, BuildFailed)
  \/ \E a \in Suspended, ok \in BOOLEAN : PromptDone(a, ok)
  \/ \E a \in Suspended : ReadFileRead(a)
  \/ \E a \in Suspended, ok \in BOOLEAN : ReadFileDone(a, ok)
  \/ \E a \in Suspended, resp \in SessionResponses, ok \in BOOLEAN :
       SessionGetDone(a, resp, ok)
  \/ \E a \in Suspended, ok \in BOOLEAN : GitConfigNameDone(a, ok)
  \/ \E a \in Suspended, ok \in BOOLEAN : GitConfigEmailDone(a, ok)
  \/ \E a \in Suspended, ok \in BOOLEAN : GitAddDone(a, ok)
  \/ \E a \in Suspended, ok \in BOOLEAN : GitCommitDone(a, ok)
  \/ \E a \in Suspended : GitTagCreate(a)
  \/ \E a \in Suspended, ok \in BOOLEAN : GitTagDone(a, ok)
  \/ \E a \in Suspended, ok \in BOOLEAN : GitPushDone(a, ok)
  \/ \E a \in Suspended : WriteFileOpen(a)
  \/ \E a \in Suspended : WriteFileWrite(a)
  \/ \E a \in Suspended, ok \in BOOLEAN : WriteFileDone(a, ok)
  \/ \E a \in Suspended : StatusDone(a)

FailingRunSpec == Init /\ [][FailingRunNext]_vars

\* ----------------------------------------------------------- properties
\* Reading the latest step off `effects`.
Did(fx, op) == \E i \in DOMAIN fx : fx[i].op = op

Emitted(fx, status) ==
  \E i \in DOMAIN fx : fx[i].op = "updateAppStatus" /\ fx[i].arg = status

\* The step resumed an activation at the await `at`.
ResumedAt(fx, at) ==
  fx # <<>> /\ fx[1].op = "resumed" /\ fx[1].arg.at = at

ResumedAny(fx) == fx # <<>> /\ fx[1].op = "resumed"

NonZeroExit(r) == r.exitCode # Undefined /\ r.exitCode # Some(0)

\* The step handled the end of a build of session s that exited non-zero.
BuildFailedFor(fx, s) ==
  /\ ResumedAt(fx, "build")
  /\ fx[1].arg.sessionID = s
  /\ NonZeroExit(fx[1].arg.result)

\* The follow-ups the step sent to session s that contain text.
FollowUps(fx, s, text) ==
  { i \in DOMAIN fx :
      /\ fx[i].op = "prompt"
      /\ fx[i].arg.id = s
      /\ \E k \in DOMAIN fx[i].arg.text : fx[i].arg.text[k] = text }

ReleaseSteps ==
  {"readFile", "sessionGet", "gitConfigName", "gitConfigEmail", "gitAdd",
   "gitCommit", "gitTag", "gitPush", "writeFile"}

ReleaseOperations == {"gitAdd", "gitCommit", "gitTag", "gitPush", "writeFile"}

\* C1: in a run of consecutive idle events of a session whose builds all
\* exit non-zero, each of the first four failures sends a follow-up and
\* emits no Errored, and the fifth emits Errored and sends no follow-up.
\* (Checked on the runs of FailingRunSpec, where the build that just ended
\* is the events-th consecutive failure of its session.)
C1_FifthFailureErrored ==
  \A s \in Sessions :
    BuildFailedFor(effects, s) =>
      /\ events \in 1..4 =>
           /\ Did(effects, "prompt")
           /\ ~Emitted(effects, "Errored")
      /\ events = 5 =>
           /\ Emitted(effects, "Errored")
           /\ ~Did(effects, "prompt")

\* C2: a failed build initialises the retry counter to 0 only when it is
\* absent and otherwise increments it by exactly 1, also when it is 0.
C2_FailureIncrements ==
  [][ \A s \in Sessions :
        BuildFailedFor(effects', s) =>
          tries' = IF tries = Undefined THEN Some(0) ELSE Some(tries[1] + 1)
    ]_vars

\* C3: stage, commit, tag, push and manifest rewrite are started only by
\* a handler whose build exited with code 0.
C3_ReleaseOnlyOnSuccess ==
  \A i \in DOMAIN effects :
    effects[i].op \in ReleaseOperations =>
      /\ ResumedAny(effects)
      /\ effects[1].arg.result.exitCode = Some(0)

\* C4: a handler whose build exited non-zero within the retry budget
\* sends exactly one follow-up, to its session and containing the stderr
\* text, when the build ends, and no step of it emits a status.
C4_FailureOnlyFollowUp ==
  ( /\ ResumedAny(effects)
    /\ NonZeroExit(effects[1].arg.result)
    /\ effects[1].arg.at = "build" => ~BudgetExceeded(tries) ) =>
      /\ ~Did(effects, "updateAppStatus")
      /\ effects[1].arg.at = "build" =>
           /\ Cardinality({i \in DOMAIN effects : effects[i].op = "prompt"}) = 1
           /\ Cardinality(FollowUps(effects, effects[1].arg.sessionID,
                                    effects[1].arg.result.stderr[1])) = 1

\* The handlers that the step from handlers to handlers' has suspended at
\* the await pc.
SuspendedAt(pc) ==
  { a \in BagToSet(handlers') :
      a.pc = pc /\ CopiesIn(a, handlers') > CopiesIn(a, handlers) }

\* C5: a handler whose build exited with code 0 settles only by returning,
\* from the await of updateAppStatus("Active"); it is suspended at that
\* await only by a step that has called updateAppStatus("Active"); and a
\* failure of any release step is such a step.
C5_SuccessEndsActive ==
  [][ /\ \A i \in DOMAIN effects' :
           ( /\ effects'[i].op \in {"return", "throw"}
             /\ effects'[i].arg.result.exitCode = Some(0) ) =>
               /\ effects'[i].op = "return"
               /\ ResumedAt(effects', "emitActive")
      /\ SuspendedAt("emitActive") # {} => Emitted(effects', "Active")
      /\ ( /\ ResumedAny(effects')
           /\ effects'[1].arg.at \in ReleaseSteps
           /\ effects'[1].arg.result.exitCode = Some(0)
           /\ ~effects'[1].arg.ok ) =>
             /\ Emitted(effects', "Active")
             /\ SuspendedAt("emitActive") # {}
    ]_vars

\* C5 witness: the push of a release after a successful build failed, and
\* the handler has emitted Active and awaits it.
C5_Witness ==
  /\ ResumedAt(effects, "gitPush")
  /\ effects[1].arg.result.exitCode = Some(0)
  /\ ~effects[1].arg.ok
  /\ Emitted(effects, "Active")
  /\ \E a \in Suspended :
       a.pc = "emitActive" /\ a.sessionID = effects[1].arg.sessionID

\* C6: no two handlers of idle events of the same session are in progress
\* at the same time.
C6_NoOverlapPerSession ==
  \A a \in Suspended :
    /\ handlers[a] = 1
    /\ \A b \in Suspended : a # b => a.sessionID # b.sessionID

\* C7: a failed build of one session leaves the retry counter of every
\* other session unchanged.
C7_CountersIsolated ==
  [][ \A s \in Sessions :
        BuildFailedFor(effects', s) =>
          \A t \in Sessions \ {s} : RetryCounter(t)' = RetryCounter(t)
    ]_vars

\* C8: when the handler of an idle event returns after a build that exited
\* with code 0 (Active) or after it emitted Errored, the retry counter of
\* its session is absent.
C8_ClearedAtTerminal ==
  \A i \in DOMAIN effects :
    ( /\ effects[i].op = "return"
      /\ \/ effects[i].arg.result.exitCode = Some(0)
         \/ ResumedAt(effects, "emitErrored") ) =>
        RetryCounter(effects[i].arg.sessionID) = Undefined

\* A decimal numeral of a natural number without leading zeros.
IsNumeral(s) ==
  /\ s # <<>>
  /\ \A i \in DOMAIN s : IsDigit(s[i])
  /\ Len(s) > 1 => s[1] # "0"

\* The natural number a numeral denotes, and the numeral of a natural
\* number.
NumeralValue(s) == StripZeros(<<>> \o [i \in DOMAIN s |-> DigitValue(s[i])])
NumeralOf(n) == IF n = <<>> THEN <<"0">> ELSE DigitChars(n)

\* The version string "<major>.<minor>.<patch>".
SemVer(major, minor, patch) ==
  NumeralOf(major) \o <<".">> \o NumeralOf(minor) \o <<".">>
    \o NumeralOf(patch)

\* Whether the manifest holds a version of the form major.minor.patch.
WellFormed(file) ==
  /\ file.json
  /\ file.value.version # Undefined
  /\ LET parts == Split(file.value.version[1], ".")
     IN Len(parts) = 3 /\ \A i \in 1..3 : IsNumeral(parts[i])

\* The <<major, minor, patch>> of a well-formed manifest.
Triple(file) ==
  LET parts == Split(file.value.version[1], ".")
  IN <<NumeralValue(parts[1]), NumeralValue(parts[2]),
       NumeralValue(parts[3])>>

\* Whether the manifest holds a version major.minor.patch whose components
\* are at most 2^53 - 1, Number.MAX_SAFE_INTEGER.
SafeVersion(file) ==
  /\ WellFormed(file)
  /\ \A i \in 1..3 : Cmp(Triple(file)[i], TwoTo53) < 0

\* The activations that the step from handlers to handlers' has resumed
\* at the await pc.
ResumedFrom(pc) ==
  { a \in Suspended :
      a.pc = pc /\ CopiesIn(a, handlers') < CopiesIn(a, handlers) }

\* Whether the step has left the tag and the manifest of the version
\* major.minor.patch+1 for the version major.minor.patch that `file` holds.
PatchBumped(file) ==
  LET t == Triple(file)
      bumped == SemVer(t[1], t[2], Add(t[3], <<1>>))
  IN /\ bumped \in tags'
     /\ manifestFile' = JsonFile(Manifest(Some(bumped)))
     /\ WellFormed(manifestFile')
     /\ Triple(manifestFile') = <<t[1], t[2], Add(t[3], <<1>>)>>

\* C9: when the manifest write of a publish has resolved and
\* the publish had read version major.minor.patch from the manifest, the
\* tag v<major>.<minor>.<patch+1> exists and the manifest holds exactly
\* major.minor.patch+1, whatever the size of the components.
C9_PatchBumpAnySize ==
  [][ ( /\ ResumedAt(effects', "writeFile")
        /\ effects'[1].arg.ok ) =>
          \A a \in ResumedFrom("writeFile") :
            WellFormed(JsonFile(Manifest(a.fromVersion))) =>
              PatchBumped(JsonFile(Manifest(a.fromVersion)))
    ]_vars

\* C10: the message given to git commit is the session's title when the
\* title is present and non-empty, and otherwise "feat: release version
\* v<newVersion>".
C10_CommitMessage ==
  \A a \in Suspended :
    a.pc = "gitCommit" =>
      a.commitMessage =
        IF /\ a.session.data # Undefined
           /\ a.session.data[1].title # Undefined
           /\ a.session.data[1].title[1] # <<>>
        THEN a.session.data[1].title[1]
        ELSE <<"feat: release version v">> \o a.newVersion

\* C11: package.json is changed only by the steps of the fs.writeFile of
\* a publish whose commit, tag and push (and every step before them) have
\* succeeded: the file is truncated and then holds that publish's bumped
\* version, and a write resolves only when it has stored the version; a
\* release step before the write that fails ends the try block in that
\* step: the manifest and the tags are unchanged, no release call is
\* made, and the handler awaits updateAppStatus("Active"), after which it
\* only returns.
C11_WriteLastOrNotAtAll ==
  [][ /\ ( \/ manifestFile' # manifestFile
           \/ Did(effects', "fs") ) =>
             \E a \in ResumedFrom("writeFile") :
               /\ a.completed = ReleaseSteps \ {"writeFile"}
               /\ a.newVersion \in tags
               /\ effects'[1].op = "fs"
               /\ manifestFile' =
                    IF effects'[1].arg.step = "open" THEN GarbageFile
                    ELSE JsonFile(Manifest(Some(a.newVersion)))
      /\ ( /\ ResumedAt(effects', "writeFile")
           /\ effects'[1].arg.ok ) =>
             \E a \in ResumedFrom("writeFile") :
               /\ a.write = "stored"
               /\ a.packageJson = Manifest(Some(a.newVersion))
      /\ ( /\ ResumedAny(effects')
           /\ effects'[1].arg.at \in ReleaseSteps \ {"writeFile"}
           /\ ~effects'[1].arg.ok ) =>
             /\ manifestFile' = manifestFile
             /\ tags' = tags
             /\ \A i \in DOMAIN effects' : effects'[i].op \notin ReleaseSteps
             /\ SuspendedAt("emitActive") # {}
      /\ ResumedAt(effects', "emitActive") =>
             /\ manifestFile' = manifestFile
             /\ tags' = tags
             /\ Len(effects') = 2
             /\ effects'[2].op = "return"
    ]_vars

\* C11 witness: the tag v2.0.10 was created and the push then failed: the
\* try block ended there and the manifest still holds 2.0.9.
C11_Witness ==
  /\ ResumedAt(effects, "gitPush")
  /\ ~effects[1].arg.ok
  /\ ~Did(effects, "writeFile")
  /\ <<"2", ".", "0", ".", "1", "0">> \in tags
  /\ manifestFile = JsonFile(Manifest(Some(<<"2", ".", "0", ".", "9">>)))

\* C12: a chat.message event calls updateAppStatus("Pending") once and does
\* nothing else.  The step that delivers the message makes that one call
\* and suspends the hook at the await of it; the step that resumes the
\* hook makes no call and returns; neither makes a build, prompt or
\* release call or changes the retry counter, the handlers of idle events,
\* the manifest or the tags; and no other step calls
\* updateAppStatus("Pending") or resumes or suspends the hook.
C12_MessageOnlyPending ==
  [][ /\ Did(effects', "chat.message") =>
           /\ effects' = <<Effect("chat.message", ""),
                           Effect("updateAppStatus", "Pending")>>
           /\ pending' = pending + 1
      /\ ResumedAt(effects', "emitPending") =>
           /\ Len(effects') = 2
           /\ effects'[2].op = "return"
           /\ pending' = pending - 1
      /\ ( \/ Did(effects', "chat.message")
           \/ ResumedAt(effects', "emitPending") ) =>
             /\ tries' = tries
             /\ handlers' = handlers
             /\ manifestFile' = manifestFile
             /\ tags' = tags
      /\ ( \/ Emitted(effects', "Pending")
           \/ pending' # pending ) =>
             \/ Did(effects', "chat.message")
             \/ ResumedAt(effects', "emitPending")
    ]_vars

\* C12 witness: the hook of a message has resumed after its await and
\* returned while the retry counter exists and a handler of an idle event
\* is suspended inside the release.
C12_Witness ==
  /\ ResumedAt(effects, "emitPending")
  /\ Did(effects, "return")
  /\ pending = 0
  /\ tries = Some(0)
  /\ \E a \in Suspended : a.pc = "gitPush"

\* C13: every call of updateAppStatus(status) sends exactly one PUT of
\* that status to the status endpoint.
C13_OneWritePerEmit ==
  \A i \in DOMAIN effects :
    effects[i].op = "updateAppStatus" =>
      /\ i < Len(effects)
      /\ effects[i + 1].op = "axios.put"
      /\ effects[i + 1].arg = effects[i].arg

\* C14: with the URL of the status endpoint unset the plugin still starts:
\* its hooks exist and handle events.
C14_StartsUnconfigured ==
  env = Undefined => ModuleLoaded

\* C15: a build command that could not be launched (no exit code) is not
\* handled as a failed build: the step that handles it neither creates nor
\* changes the retry counter, sends no follow-up, starts no release and
\* emits no Active.
C15_LaunchFailureIsNoBuildFailure ==
  [][ ( /\ ResumedAt(effects', "build")
        /\ effects'[1].arg.result.exitCode = Undefined ) =>
          /\ tries' = tries
          /\ ~Did(effects', "prompt")
          /\ ~Did(effects', "readFile")
          /\ ~Emitted(effects', "Active")
    ]_vars

\* C16: the handler of an idle event whose build exited non-zero does, when
\* the build ends, exactly one of two things: it sends a follow-up, and the
\* counter after the update is at most 3, or it emits Errored, and the
\* counter is above 3; no later step of it sends a follow-up or emits
\* Errored.
C16_FollowUpOrErrored ==
  ( /\ ResumedAny(effects)
    /\ NonZeroExit(effects[1].arg.result) ) =>
      LET followUp == Did(effects, "prompt")
          errored == Emitted(effects, "Errored")
      IN IF effects[1].arg.at = "build"
         THEN /\ followUp # errored
              /\ tries # Undefined
              /\ followUp <=> tries[1] <= 3
         ELSE ~followUp /\ ~errored

\* C16 witness: a build has exited non-zero, the counter is 0 after the
\* update, a follow-up is sent and Errored is not emitted.
C16_Witness ==
  /\ ResumedAt(effects, "build")
  /\ NonZeroExit(effects[1].arg.result)
  /\ tries = Some(0)
  /\ Did(effects, "prompt")
  /\ ~Emitted(effects, "Errored")

\* The positions of the calls updateAppStatus("Active") of a step.
ActiveCalls(fx) ==
  { i \in DOMAIN fx : fx[i].op = "updateAppStatus" /\ fx[i].arg = "Active" }

\* C18: a handler whose build exited with code 0 calls
\* updateAppStatus("Active") only in the step in which its try block ends
\* (the write has settled, or a step has failed and the exception was
\* caught), once, as the last call of that step and with no release call
\* in it; it then awaits the call and the step after the await only
\* returns.  A step that leaves it suspended in the release emits nothing.
C18_ActiveOnceAfterRelease ==
  ( /\ ResumedAny(effects)
    /\ effects[1].arg.result.exitCode = Some(0) ) =>
      CASE effects[1].arg.at = "emitActive" ->
             /\ Len(effects) = 2
             /\ effects[2].op = "return"
        [] \E a \in Suspended :
             /\ a.pc = "emitActive"
             /\ a.sessionID = effects[1].arg.sessionID
             /\ Did(effects, "updateAppStatus") ->
             /\ effects[1].arg.at \in ReleaseSteps
             /\ ActiveCalls(effects) = {2}
             /\ Len(effects) = 2
        [] OTHER ->
             /\ ActiveCalls(effects) = {}
             /\ ~Did(effects, "return")

\* C18 witness: the write of the manifest, the last release step of a
\* handler whose build exited 0, has failed; Active is emitted once, after
\* it, and the handler awaits it.
C18_Witness ==
  /\ ResumedAt(effects, "writeFile")
  /\ effects[1].arg.result.exitCode = Some(0)
  /\ ~effects[1].arg.ok
  /\ ActiveCalls(effects) = {2}
  /\ Len(effects) = 2

\* C19: in runs without overlapping handlers and with a manifest whose
\* version is major.minor.patch, the version a publish of a successful
\* build has computed from the manifest is not the version of a tag that an
\* earlier publish created (its own git tag has not created one yet).
C19_FailedReleaseDoesNotBlock ==
  \A a \in Suspended :
    ( /\ SafeVersion(manifestFile)
      /\ a.result.exitCode = Some(0)
      /\ a.pc \in {"sessionGet", "gitConfigName", "gitConfigEmail",
                   "gitAdd", "gitCommit", "gitTag"}
      /\ ~a.tagged ) =>
        a.newVersion \notin tags

\* C20: two handlers of successful builds of different sessions that are
\* in the release at the same time, over a manifest whose version is
\* major.minor.patch, have not computed the same new version.
C20_NoSharedNextVersion ==
  \A a, b \in Suspended :
    ( /\ SafeVersion(manifestFile)
      /\ a.sessionID # b.sessionID
      /\ a.result.exitCode = Some(0)
      /\ b.result.exitCode = Some(0)
      /\ a.pc \in ReleaseSteps \ {"readFile"}
      /\ b.pc \in ReleaseSteps \ {"readFile"} ) =>
        a.newVersion # b.newVersion

====
